---- MODULE Spec2Model ----
(***************************************************************************)
(* Model of process_lora_models.py: the checkpointed scan / refine /      *)
(* verify pipeline of the LoRA analyzer.                                   *)
(*                                                                         *)
(* Python dicts are modelled as sequences of <<key, value>> pairs in       *)
(* insertion order.  sha256 is modelled as a collision-free tag around     *)
(* the hashed data.  A Python set whose iteration order decides control    *)
(* flow is iterated in a nondeterministically chosen order; where only     *)
(* the contents matter (serialisation) list(set) is the rank order.        *)
(***************************************************************************)
EXTENDS Integers, Sequences, FiniteSets, TLC

\* ---------------------------------------------------------------- bounds
MaxRuns == 2          \* program starts modelled (first run plus restarts)
MaxEnvChanges == 1    \* changes of the directory by the environment
MaxPasses == 3        \* cap of the counter of refinement passes
MAX_WORKERS == 2      \* consumer threads modelled (line 18 sets 4)

\* ------------------------------------------------------- program constants
flush_interval == 2   \* line 74

PROCESSED_JSON == "processed.json"
GROUPS_JSON == "groups.json"
REFINED_GROUPS_JSON == "refined_groups.json"
DUPLICATES_JSON == "duplicates.json"
TableFiles == {PROCESSED_JSON, GROUPS_JSON, REFINED_GROUPS_JSON, DUPLICATES_JSON}

\* ------------------------------------------------------------ the directory
FileOrder == <<"X", "Y", "Z">>
Files == {FileOrder[i] : i \in DOMAIN FileOrder}
Workers == 1..MAX_WORKERS
None == "None"
Free == 0

Tensor(n, s, v) == [name |-> n, shape |-> s, val |-> v]
TM_A == <<Tensor("w1", <<2>>, 1), Tensor("w2", <<2>>, 1)>>
TM_B == <<Tensor("w1", <<2>>, 1), Tensor("w2", <<2>>, 2)>>
TM_C == <<Tensor("w1", <<2>>, 2), Tensor("w2", <<2>>, 1)>>
TM_N == <<Tensor("w1", <<2>>, 1), Tensor("v2", <<2>>, 1)>>
TM_S == <<Tensor("s", <<>>, 1)>>
TM_1 == <<Tensor("w1", <<2>>, 1)>>
Dir(x, y, z) == [f \in Files |-> IF f = "X" THEN x ELSE IF f = "Y" THEN y ELSE z]
\* the directories examined: contents of X, Y, Z
Directories ==
    { Dir(TM_A, TM_A, TM_B),    \* X = Y, Z ties on the probe tensor only
      Dir(TM_A, TM_A, TM_C),    \* X = Y, Z differs on the probe tensor
      Dir(TM_A, TM_A, TM_A),    \* three equal files
      Dir(TM_A, TM_N, TM_C),    \* equal values under different tensor names
      Dir(TM_A, TM_C, TM_1),    \* two signatures, distinct probes
      Dir(TM_1, TM_A, TM_C),
      Dir(TM_S, TM_S, TM_A),    \* a group of files without non-scalar tensor
      Dir(TM_A, TM_1, TM_S) }   \* three signatures

\* ------------------------------------------------------------ Python helpers
PathOrder == <<"W", "X", "Y", "Z">>
sorted(S) == SelectSeq(PathOrder, LAMBDA f : f \in S)
list(S) == sorted(S)
Range(q) == {q[i] : i \in DOMAIN q}
Perms(S) == {q \in [1..Cardinality(S) -> S] : \A i, j \in DOMAIN q : q[i] = q[j] => i = j}
Min(a, b) == IF a < b THEN a ELSE b

DictHas(d, k) == \E i \in DOMAIN d : d[i][1] = k
DictIdx(d, k) == CHOOSE i \in DOMAIN d : d[i][1] = k
DictGet(d, k) == d[DictIdx(d, k)][2]
DictPut(d, k, v) == IF DictHas(d, k) THEN [d EXCEPT ![DictIdx(d, k)] = <<k, v>>]
                    ELSE Append(d, <<k, v>>)
DictValues(d) == [i \in DOMAIN d |-> d[i][2]]

sha256(x) == <<"sha256", x>>

\* ---------------------------------------------------------- Signature Engine
compute_shape_signature(state_dict) ==
    sha256([i \in DOMAIN state_dict |-> state_dict[i].shape])

compute_weight_hash(tensor) == sha256(tensor.val)

\* ------------------------------------------------------------ Checkpoint Store
FileAbsent == [st |-> "absent"]
FileOk(data) == [st |-> "ok", data |-> data]
FileTorn == [st |-> "torn"]

\* load_json: {} when the file is absent, the decoded value otherwise
load_json(disk_, filename, empty) ==
    IF disk_[filename].st = "ok" THEN disk_[filename].data ELSE empty

\* line 27: open(filename, "w") truncates the file; until json.dump has
\* written the whole text the file holds no JSON value
open_w(disk_, filename) == [disk_ EXCEPT ![filename] = FileTorn]

\* line 28 completed: the file holds the whole value
save_json(disk_, filename, data) == [disk_ EXCEPT ![filename] = FileOk(data)]

\* a value of the duplicates dict: a set made by refine_group (line 176) or a
\* list decoded from duplicates.json; the elements are kept in rank order
PySet(S) == [py |-> "set", elems |-> sorted(S)]
PyList(q) == [py |-> "list", elems |-> q]

\* json.dump encodes a list and raises TypeError on a set; json.load decodes
\* an array to a list
JsonSerializable(dups) == \A i \in DOMAIN dups : dups[i][2].py = "list"
DuplicatesAsJson(dups) == [i \in DOMAIN dups |-> <<dups[i][1], dups[i][2].elems>>]
DuplicatesFromJson(raw) == [i \in DOMAIN raw |-> <<raw[i][1], PyList(raw[i][2])>>]

VARIABLES
    content, broken, env_changes,          \* the directory and the Tensor Loader
    disk,                                  \* the four checkpoint files
    run, orch_pc,                          \* run_adaptive_lora_analysis
    processed_data, groups, refined_groups, duplicates,
    processed_count, total_files,
    file_queue, unfinished_tasks,          \* queue.Queue
    groups_lock, processed_lock,
    prod_pc, file_list, prod_i,            \* producer_thread
    pc, item, flush_iter,                  \* consumer_thread_shape_grouping
    attempted, enqueued, load_log,         \* history of the producer's loads
    resumed, prev,                         \* history of the checkpoint at restarts
    cr_i,                                  \* conflict_resolution: index into groups
    current_level, new_level, layer_processed, sub_i, passes,   \* refine_group
    final_groups, fg_i

envVars == <<content, broken, env_changes>>
tableVars == <<processed_data, groups, refined_groups, duplicates>>
queueVars == <<file_queue, unfinished_tasks>>
lockVars == <<groups_lock, processed_lock>>
prodVars == <<prod_pc, file_list, prod_i>>
consVars == <<pc, item, flush_iter>>
histVars == <<attempted, enqueued, load_log, resumed, prev>>
refineVars == <<cr_i, current_level, new_level, layer_processed, sub_i, passes,
                final_groups, fg_i>>
vars == <<content, broken, env_changes, disk, run, orch_pc,
          processed_data, groups, refined_groups, duplicates,
          processed_count, total_files, file_queue, unfinished_tasks,
          groups_lock, processed_lock, prod_pc, file_list, prod_i,
          pc, item, flush_iter, attempted, enqueued, load_log, resumed, prev,
          cr_i, current_level, new_level, layer_processed, sub_i, passes,
          final_groups, fg_i>>

NoIter == [used |-> 0, pos |-> 0, temp |-> <<>>]
NoTables == [processed |-> {}, grouped |-> {}]
GroupMembers(g) == UNION {g[i][2] : i \in DOMAIN g}

\* The process before run_adaptive_lora_analysis has executed a statement.
FreshProcess ==
    /\ orch_pc = "start"
    /\ processed_data = {}
    /\ groups = <<>>
    /\ refined_groups = <<>>
    /\ duplicates = <<>>
    /\ processed_count = 0
    /\ total_files = 0
    /\ file_queue = <<>>
    /\ unfinished_tasks = 0
    /\ groups_lock = Free
    /\ processed_lock = Free
    /\ prod_pc = "unborn"
    /\ file_list = <<>>
    /\ prod_i = 0
    /\ pc = [w \in Workers |-> "unborn"]
    /\ item = [w \in Workers |-> None]
    /\ flush_iter = NoIter
    /\ attempted = {}
    /\ enqueued = {}
    /\ resumed = NoTables
    /\ cr_i = 0
    /\ current_level = <<>>
    /\ new_level = <<>>
    /\ layer_processed = FALSE
    /\ sub_i = 0
    /\ passes = 0
    /\ final_groups = <<>>
    /\ fg_i = 0

Init ==
    /\ content \in Directories
    /\ broken \in {b \in SUBSET Files : Cardinality(b) <= 1}
    /\ env_changes = 0
    /\ disk = [t \in TableFiles |-> FileAbsent]
    /\ run = 1
    /\ load_log = [f \in Files |-> <<>>]
    /\ prev = [completed |-> FALSE, disk |-> [t \in TableFiles |-> FileAbsent]]
    /\ FreshProcess

\* ------------------------------------------------------------- orchestrator
\* lines 205-255: load the four tables, create queue and locks, spawn threads
O_Start ==
    /\ orch_pc = "start"
    /\ IF \E t \in TableFiles : disk[t].st = "torn"
       THEN /\ orch_pc' = "failed"
            /\ UNCHANGED <<tableVars, processed_count, prod_pc, pc, resumed>>
       ELSE /\ processed_data' = load_json(disk, PROCESSED_JSON, {})
            /\ groups' = LET raw == load_json(disk, GROUPS_JSON, <<>>)
                         IN [i \in DOMAIN raw |-> <<raw[i][1], Range(raw[i][2])>>]
            /\ refined_groups' = load_json(disk, REFINED_GROUPS_JSON, <<>>)
            /\ duplicates' = DuplicatesFromJson(load_json(disk, DUPLICATES_JSON, <<>>))
            /\ processed_count' = Cardinality(load_json(disk, PROCESSED_JSON, {}))
            /\ prod_pc' = "list"
            /\ pc' = [w \in Workers |-> "get"]
            /\ orch_pc' = "join_producer"
            /\ resumed' = [processed |-> load_json(disk, PROCESSED_JSON, {}),
                           grouped |-> UNION {Range(load_json(disk, GROUPS_JSON, <<>>)[i][2]) :
                                               i \in DOMAIN load_json(disk, GROUPS_JSON, <<>>)}]
    /\ UNCHANGED <<envVars, disk, run, total_files, queueVars, lockVars,
                   file_list, prod_i, item, flush_iter, attempted, enqueued, load_log,
                   prev, refineVars>>

\* line 257: prod_thread.join()
O_JoinProducer ==
    /\ orch_pc = "join_producer"
    /\ prod_pc = "done"
    /\ orch_pc' = "join_queue"
    /\ UNCHANGED <<envVars, disk, run, tableVars, processed_count, total_files,
                   queueVars, lockVars, prodVars, consVars, histVars, refineVars>>

QueueJoined_NoWait == TRUE

\* line 259: file_queue.join()
QueueJoined == unfinished_tasks = 0

O_JoinQueue ==
    /\ orch_pc = "join_queue"
    /\ QueueJoined
    /\ orch_pc' = "save_processed"
    /\ UNCHANGED <<envVars, disk, run, tableVars, processed_count, total_files,
                   queueVars, lockVars, prodVars, consVars, histVars, refineVars>>

\* line 27 within the orchestrator's calls of save_json (lines 263, 265, 200,
\* 271, 272): the file is opened for writing
SaveTarget ==
    [save_processed |-> PROCESSED_JSON, save_groups |-> GROUPS_JSON,
     cr_save |-> REFINED_GROUPS_JSON, save_refined |-> REFINED_GROUPS_JSON,
     save_duplicates |-> DUPLICATES_JSON]
DumpPc ==
    [save_processed |-> "dump_processed", save_groups |-> "dump_groups",
     cr_save |-> "cr_dump", save_refined |-> "dump_refined",
     save_duplicates |-> "dump_duplicates"]

O_Open ==
    /\ orch_pc \in DOMAIN SaveTarget
    /\ disk' = open_w(disk, SaveTarget[orch_pc])
    /\ orch_pc' = DumpPc[orch_pc]
    /\ UNCHANGED <<envVars, run, tableVars, processed_count, total_files,
                   queueVars, lockVars, prodVars, consVars, histVars, refineVars>>

\* line 263
O_SaveProcessed ==
    /\ orch_pc = "dump_processed"
    /\ disk' = save_json(disk, PROCESSED_JSON, processed_data)
    /\ orch_pc' = "save_groups"
    /\ UNCHANGED <<envVars, run, tableVars, processed_count, total_files,
                   queueVars, lockVars, prodVars, consVars, histVars, refineVars>>

\* lines 264-265
GroupsAsLists(g) == [i \in DOMAIN g |-> <<g[i][1], list(g[i][2])>>]

O_SaveGroups ==
    /\ orch_pc = "dump_groups"
    /\ disk' = save_json(disk, GROUPS_JSON, GroupsAsLists(groups))
    /\ orch_pc' = "resolve"
    /\ cr_i' = 1
    /\ UNCHANGED <<envVars, run, tableVars, processed_count, total_files,
                   queueVars, lockVars, prodVars, consVars, histVars,
                   current_level, new_level, layer_processed, sub_i, passes,
                   final_groups, fg_i>>

\* ------------------------------------------------------------------ producer
AfterFile_Break(i) == "sentinel"

\* line 46: the next file of the list, or the sentinels after the last
AfterFile(i) == IF i > Len(file_list) THEN "sentinel" ELSE "check"

\* lines 43-44: os.listdir; its order is FileOrder, the directories above
\* place the contents under the names
P_List ==
    /\ prod_pc = "list"
    /\ file_list' = FileOrder
    /\ total_files' = Len(FileOrder)
    /\ prod_i' = 1
    /\ prod_pc' = "check"
    /\ UNCHANGED <<envVars, disk, run, orch_pc, tableVars, processed_count,
                   queueVars, lockVars, consVars, histVars, refineVars>>

AlreadyProcessed_Never(file_path) == FALSE

\* line 49
AlreadyProcessed(file_path) == file_path \in processed_data

\* lines 48-51: the skip test, under processed_lock
P_Check ==
    /\ prod_pc = "check"
    /\ processed_lock = Free
    /\ IF AlreadyProcessed(file_list[prod_i])
       THEN /\ prod_i' = prod_i + 1
            /\ prod_pc' = AfterFile(prod_i + 1)
       ELSE /\ prod_pc' = "load"
            /\ UNCHANGED prod_i
    /\ UNCHANGED <<envVars, disk, run, orch_pc, tableVars, processed_count, total_files,
                   queueVars, lockVars, file_list, consVars, histVars, refineVars>>

\* lines 54-60: load_file, then put on success; a failure is logged
LoadFails(f) == f \in broken

P_Load ==
    /\ prod_pc = "load"
    /\ LET f == file_list[prod_i] IN
          /\ attempted' = attempted \cup {f}
          /\ load_log' = [load_log EXCEPT ![f] = Append(@, IF LoadFails(f) THEN "fail" ELSE "ok")]
          /\ IF LoadFails(f)
             THEN UNCHANGED <<queueVars, enqueued>>
             ELSE /\ file_queue' = Append(file_queue, f)
                  /\ unfinished_tasks' = unfinished_tasks + 1
                  /\ enqueued' = enqueued \cup {f}
    /\ prod_i' = prod_i + 1
    /\ prod_pc' = AfterFile(prod_i + 1)
    /\ UNCHANGED <<envVars, disk, run, orch_pc, tableVars, processed_count, total_files,
                   lockVars, file_list, consVars, resumed, prev, refineVars>>

\* lines 63-64: one sentinel per consumer
P_Sentinels ==
    /\ prod_pc = "sentinel"
    /\ file_queue' = file_queue \o [i \in 1..MAX_WORKERS |-> None]
    /\ unfinished_tasks' = unfinished_tasks + MAX_WORKERS
    /\ prod_pc' = "done"
    /\ UNCHANGED <<envVars, disk, run, orch_pc, tableVars, processed_count, total_files,
                   lockVars, file_list, prod_i, consVars, histVars, refineVars>>

\* ------------------------------------------------------------------ consumers
\* line 77: file_queue.get()
C_Get(w) ==
    /\ pc[w] = "get"
    /\ file_queue # <<>>
    /\ item' = [item EXCEPT ![w] = Head(file_queue)]
    /\ file_queue' = Tail(file_queue)
    /\ pc' = [pc EXCEPT ![w] = IF Head(file_queue) = None THEN "sentinel" ELSE "got"]
    /\ UNCHANGED <<envVars, disk, run, orch_pc, tableVars, processed_count, total_files,
                   unfinished_tasks, lockVars, prodVars, flush_iter, histVars, refineVars>>

\* lines 78-81: the sentinel
C_Sentinel(w) ==
    /\ pc[w] = "sentinel"
    /\ unfinished_tasks' = unfinished_tasks - 1
    /\ pc' = [pc EXCEPT ![w] = "exited"]
    /\ UNCHANGED <<envVars, disk, run, orch_pc, tableVars, processed_count, total_files,
                   file_queue, lockVars, prodVars, item, flush_iter, histVars, refineVars>>

\* line 86: with groups_lock
C_LockGroups(w) ==
    /\ pc[w] = "got"
    /\ groups_lock = Free
    /\ groups_lock' = w
    /\ pc' = [pc EXCEPT ![w] = "groups"]
    /\ UNCHANGED <<envVars, disk, run, orch_pc, tableVars, processed_count, total_files,
                   queueVars, processed_lock, prodVars, item, flush_iter, histVars, refineVars>>

GroupsAdd_Overwrite(g, shape_sig, file_path) == DictPut(g, shape_sig, {file_path})

\* lines 85, 87-89: upsert of the path under its signature, then release
GroupsAdd(g, shape_sig, file_path) ==
    IF DictHas(g, shape_sig)
    THEN DictPut(g, shape_sig, DictGet(g, shape_sig) \cup {file_path})
    ELSE DictPut(g, shape_sig, {file_path})

GroupsLockAfterAdd_Kept(w) == w

\* line 89 is the last of the with-block of line 86: groups_lock is released
GroupsLockAfterAdd(w) == Free

C_AddGroup(w) ==
    /\ pc[w] = "groups"
    /\ groups' = GroupsAdd(groups, compute_shape_signature(content[item[w]]), item[w])
    /\ groups_lock' = GroupsLockAfterAdd(w)
    /\ pc' = [pc EXCEPT ![w] = "want_record"]
    /\ UNCHANGED <<envVars, disk, run, orch_pc, processed_data, refined_groups, duplicates,
                   processed_count, total_files, queueVars, processed_lock, prodVars,
                   item, flush_iter, histVars, refineVars>>

\* line 90: with processed_lock
C_LockProcessed(w) ==
    /\ pc[w] = "want_record"
    /\ processed_lock = Free
    /\ processed_lock' = w
    /\ pc' = [pc EXCEPT ![w] = "record"]
    /\ UNCHANGED <<envVars, disk, run, orch_pc, tableVars, processed_count, total_files,
                   queueVars, groups_lock, prodVars, item, flush_iter, histVars, refineVars>>

FlushDue_Never(count) == FALSE

\* lines 91-98: the FileRecord, the counter and the flush test
FlushDue(count) == count % flush_interval = 0

C_Record(w) ==
    /\ pc[w] = "record"
    /\ processed_data' = processed_data \cup {item[w]}
    /\ processed_count' = processed_count + 1
    /\ IF FlushDue(processed_count + 1)
       THEN /\ pc' = [pc EXCEPT ![w] = "flush"]
            /\ UNCHANGED processed_lock
       ELSE /\ pc' = [pc EXCEPT ![w] = "task_done"]
            /\ processed_lock' = Free
    /\ UNCHANGED <<envVars, disk, run, orch_pc, groups, refined_groups, duplicates,
                   total_files, queueVars, groups_lock, prodVars, item, flush_iter, histVars, refineVars>>

\* line 100 at line 27: processed.json is opened for writing
C_FlushOpen(w) ==
    /\ pc[w] = "flush"
    /\ disk' = open_w(disk, PROCESSED_JSON)
    /\ pc' = [pc EXCEPT ![w] = "flush_dump"]
    /\ UNCHANGED <<envVars, run, orch_pc, tableVars, processed_count, total_files,
                   queueVars, lockVars, prodVars, item, flush_iter, histVars, refineVars>>

\* line 100 completed, and the creation of the iterator groups.items() of
\* line 101
C_FlushProcessed(w) ==
    /\ pc[w] = "flush_dump"
    /\ disk' = save_json(disk, PROCESSED_JSON, processed_data)
    /\ flush_iter' = [used |-> Len(groups), pos |-> 0, temp |-> <<>>]
    /\ pc' = [pc EXCEPT ![w] = "snapshot"]
    /\ UNCHANGED <<envVars, run, orch_pc, tableVars, processed_count, total_files,
                   queueVars, lockVars, prodVars, item, histVars, refineVars>>

\* lines 101-102: one step of the dict comprehension over groups, which is read
\* without groups_lock: an insertion of a key since the iterator was created
\* raises RuntimeError (dictionary changed size during iteration) and the
\* thread dies; at exhaustion groups.json is opened for writing
C_Snapshot(w) ==
    /\ pc[w] = "snapshot"
    /\ IF Len(groups) # flush_iter.used
       THEN /\ pc' = [pc EXCEPT ![w] = "crashed"]
            /\ flush_iter' = NoIter
            /\ processed_lock' = Free
            /\ UNCHANGED disk
       ELSE IF flush_iter.pos < Len(groups)
       THEN /\ flush_iter' = [flush_iter EXCEPT
                                !.pos = @ + 1,
                                !.temp = Append(@, <<groups[flush_iter.pos + 1][1],
                                                     list(groups[flush_iter.pos + 1][2])>>)]
            /\ UNCHANGED <<pc, processed_lock, disk>>
       ELSE /\ disk' = open_w(disk, GROUPS_JSON)
            /\ pc' = [pc EXCEPT ![w] = "snapshot_dump"]
            /\ UNCHANGED <<flush_iter, processed_lock>>
    /\ UNCHANGED <<envVars, run, orch_pc, tableVars, processed_count, total_files,
                   queueVars, groups_lock, prodVars, item, histVars, refineVars>>

\* line 102 completed; the end of the with-block releases processed_lock
C_SaveSnapshot(w) ==
    /\ pc[w] = "snapshot_dump"
    /\ disk' = save_json(disk, GROUPS_JSON, flush_iter.temp)
    /\ flush_iter' = NoIter
    /\ processed_lock' = Free
    /\ pc' = [pc EXCEPT ![w] = "task_done"]
    /\ UNCHANGED <<envVars, run, orch_pc, tableVars, processed_count, total_files,
                   queueVars, groups_lock, prodVars, item, histVars, refineVars>>

\* line 104
C_TaskDone(w) ==
    /\ pc[w] = "task_done"
    /\ unfinished_tasks' = unfinished_tasks - 1
    /\ pc' = [pc EXCEPT ![w] = "get"]
    /\ UNCHANGED <<envVars, disk, run, orch_pc, tableVars, processed_count, total_files,
                   file_queue, lockVars, prodVars, item, flush_iter, histVars, refineVars>>

\* --------------------------------------------------------------- refine_group
NoneKey == <<"None", 0>>
scanVars == <<processed_count, total_files, queueVars, lockVars, prodVars, consVars,
              histVars, processed_data, groups>>

\* lines 129-135: the probe of one file, the hash of its first tensor that is
\* not zero-dimensional; 0 when it has none
ProbeIndex(state_dict) ==
    IF \E i \in DOMAIN state_dict : state_dict[i].shape # <<>>
    THEN CHOOSE i \in DOMAIN state_dict :
            /\ state_dict[i].shape # <<>>
            /\ \A j \in 1..(i - 1) : state_dict[j].shape = <<>>
    ELSE 0

HashMapAppend(map, h, f) ==
    IF DictHas(map, h) THEN DictPut(map, h, Append(DictGet(map, h), f))
    ELSE DictPut(map, h, <<f>>)

\* lines 125-138: layer_hash_map of one subgroup visited in `order`; ok is
\* FALSE when a load raised, which leaves the loop at that file
RECURSIVE LayerHashMap(_, _, _)
LayerHashMap(order, i, map) ==
    IF i > Len(order) THEN [map |-> map, ok |-> TRUE]
    ELSE IF LoadFails(order[i]) THEN [map |-> map, ok |-> FALSE]
    ELSE LET state_dict == content[order[i]]
             k == ProbeIndex(state_dict)
         IN  IF k = 0 THEN LayerHashMap(order, i + 1, map)
             ELSE LayerHashMap(order, i + 1,
                      HashMapAppend(map, compute_weight_hash(state_dict[k]), order[i]))

\* lines 119-121 and 142-148: new_level[key].update(files)
LevelUpdate(level, key, files) ==
    IF DictHas(level, key) THEN DictPut(level, key, DictGet(level, key) \cup files)
    ELSE DictPut(level, key, files)

\* lines 140-148
RECURSIVE MergeHashMap(_, _, _)
MergeHashMap(level, map, i) ==
    IF i > Len(map) THEN level
    ELSE MergeHashMap(LevelUpdate(level, map[i][1], Range(map[i][2])), map, i + 1)

\* lines 195-199 and 112: the next coarse group; refine_group is entered for
\* a group of more than one file
CR_Next ==
    /\ orch_pc = "resolve"
    /\ IF cr_i > Len(groups)
       THEN /\ orch_pc' = "save_refined"
            /\ UNCHANGED refineVars
       ELSE IF Cardinality(groups[cr_i][2]) > 1
       THEN /\ orch_pc' = "refine"
            /\ current_level' = <<<<NoneKey, groups[cr_i][2]>>>>
            /\ new_level' = <<>>
            /\ layer_processed' = FALSE
            /\ sub_i' = 1
            /\ passes' = 0
            /\ UNCHANGED <<cr_i, final_groups, fg_i>>
       ELSE /\ cr_i' = cr_i + 1
            /\ UNCHANGED <<orch_pc, current_level, new_level, layer_processed, sub_i,
                           passes, final_groups, fg_i>>
    /\ UNCHANGED <<envVars, disk, run, refined_groups, duplicates, scanVars>>

\* lines 117-148: one subgroup of the current level
R_Subgroup ==
    /\ orch_pc = "refine"
    /\ sub_i <= Len(current_level)
    /\ LET subgroup_key == current_level[sub_i][1]
           subgroup_files == current_level[sub_i][2]
       IN  IF Cardinality(subgroup_files) <= 1
           THEN /\ new_level' = LevelUpdate(new_level, subgroup_key, subgroup_files)
                /\ UNCHANGED layer_processed
           ELSE \E order \in Perms(subgroup_files) :
                  LET r == LayerHashMap(order, 1, <<>>)
                  IN  /\ new_level' = MergeHashMap(new_level, r.map, 1)
                      /\ layer_processed' = (layer_processed \/ r.ok)
    /\ sub_i' = sub_i + 1
    /\ UNCHANGED <<envVars, disk, run, orch_pc, refined_groups, duplicates, scanVars,
                   cr_i, current_level, passes, final_groups, fg_i>>

\* lines 150-155: the end of a pass
R_PassEnd ==
    /\ orch_pc = "refine"
    /\ sub_i > Len(current_level)
    /\ current_level' = new_level
    /\ passes' = Min(passes + 1, MaxPasses)
    /\ IF layer_processed
       THEN /\ new_level' = <<>>
            /\ layer_processed' = FALSE
            /\ sub_i' = 1
            /\ UNCHANGED <<orch_pc, final_groups, fg_i>>
       ELSE /\ orch_pc' = "verify"
            /\ final_groups' = DictValues(new_level)
            /\ fg_i' = 1
            /\ UNCHANGED <<new_level, layer_processed, sub_i>>
    /\ UNCHANGED <<envVars, disk, run, refined_groups, duplicates, scanVars, cr_i>>

\* line 169: torch.equal
torch_equal(v1, v2) == v1.shape = v2.shape /\ v1.val = v2.val

\* lines 167-171: the zip stops at the shorter mapping
all_match(ref_dict, other_dict) ==
    \A i \in 1..Min(Len(ref_dict), Len(other_dict)) :
        /\ ref_dict[i].name = other_dict[i].name
        /\ torch_equal(ref_dict[i], other_dict[i])

IsExactDuplicate_CountOnly(ref_dict, other_dict) == Len(ref_dict) = Len(other_dict)

\* lines 165-172: the count test, then the zip
IsExactDuplicate(ref_dict, other_dict) ==
    /\ Len(ref_dict) = Len(other_dict)
    /\ all_match(ref_dict, other_dict)

\* lines 163-179: the members after the reference; a load that raises, or
\* .add on a value that is no set, leaves the loop
RECURSIVE VerifyFrom(_, _, _)
VerifyFrom(order, i, dups) ==
    IF i > Len(order) THEN dups
    ELSE IF LoadFails(order[i]) THEN dups
    ELSE IF ~IsExactDuplicate(content[order[1]], content[order[i]])
    THEN VerifyFrom(order, i + 1, dups)
    ELSE LET d1 == IF DictHas(dups, order[1]) THEN dups
                   ELSE DictPut(dups, order[1], PySet({}))
             old == DictGet(d1, order[1])
         IN  IF old.py # "set" THEN d1
             ELSE VerifyFrom(order, i + 1,
                      DictPut(d1, order[1], PySet(Range(old.elems) \cup {order[i]})))

\* lines 160-162
VerifyGroup(order, dups) ==
    IF LoadFails(order[1]) THEN dups ELSE VerifyFrom(order, 2, dups)

\* lines 156-179: exact verification of one final subgroup
V_Group ==
    /\ orch_pc = "verify"
    /\ fg_i <= Len(final_groups)
    /\ IF Cardinality(final_groups[fg_i]) <= 1
       THEN UNCHANGED duplicates
       ELSE \E order \in Perms(final_groups[fg_i]) :
               duplicates' = VerifyGroup(order, duplicates)
    /\ fg_i' = fg_i + 1
    /\ UNCHANGED <<envVars, disk, run, orch_pc, refined_groups, scanVars,
                   cr_i, current_level, new_level, layer_processed, sub_i, passes,
                   final_groups>>

\* lines 183-191
ClusterKey(fg) ==
    IF Cardinality(fg) = 1 THEN <<"unique_", list(fg)>>
    ELSE sha256(sorted(fg))

RECURSIVE BuildRefined(_, _, _)
BuildRefined(refined, fgs, i) ==
    IF i > Len(fgs) THEN refined
    ELSE BuildRefined(DictPut(refined, ClusterKey(fgs[i]), list(fgs[i])), fgs, i + 1)

R_Build ==
    /\ orch_pc = "verify"
    /\ fg_i > Len(final_groups)
    /\ refined_groups' = BuildRefined(refined_groups, final_groups, 1)
    /\ orch_pc' = "cr_save"
    /\ UNCHANGED <<envVars, disk, run, duplicates, scanVars, refineVars>>

\* line 200, then the next group
CR_Save ==
    /\ orch_pc = "cr_dump"
    /\ disk' = save_json(disk, REFINED_GROUPS_JSON, refined_groups)
    /\ cr_i' = cr_i + 1
    /\ orch_pc' = "resolve"
    /\ UNCHANGED <<envVars, run, refined_groups, duplicates, scanVars,
                   current_level, new_level, layer_processed, sub_i, passes,
                   final_groups, fg_i>>

\* line 271
O_SaveRefined ==
    /\ orch_pc = "dump_refined"
    /\ disk' = save_json(disk, REFINED_GROUPS_JSON, refined_groups)
    /\ orch_pc' = "save_duplicates"
    /\ UNCHANGED <<envVars, run, refined_groups, duplicates, scanVars, refineVars>>

\* line 272: json.dump raises TypeError on a value that is a set, after the
\* file was opened for writing and the text before that value written
O_SaveDuplicates ==
    /\ orch_pc = "dump_duplicates"
    /\ IF JsonSerializable(duplicates)
       THEN /\ disk' = save_json(disk, DUPLICATES_JSON, DuplicatesAsJson(duplicates))
            /\ orch_pc' = "done"
       ELSE /\ disk' = [disk EXCEPT ![DUPLICATES_JSON] = FileTorn]
            /\ orch_pc' = "failed"
    /\ UNCHANGED <<envVars, run, refined_groups, duplicates, scanVars, refineVars>>

Refiner == CR_Next \/ R_Subgroup \/ R_PassEnd \/ V_Group \/ R_Build \/ CR_Save

\* ------------------------------------------------------------- environment
\* the process is stopped (it ended, or it was interrupted) and started again
Restart ==
    /\ run < MaxRuns
    /\ orch_pc # "start"
    /\ run' = run + 1
    /\ orch_pc' = "start"
    /\ processed_data' = {}
    /\ groups' = <<>>
    /\ refined_groups' = <<>>
    /\ duplicates' = <<>>
    /\ processed_count' = 0
    /\ total_files' = 0
    /\ file_queue' = <<>>
    /\ unfinished_tasks' = 0
    /\ groups_lock' = Free
    /\ processed_lock' = Free
    /\ prod_pc' = "unborn"
    /\ file_list' = <<>>
    /\ prod_i' = 0
    /\ pc' = [w \in Workers |-> "unborn"]
    /\ item' = [w \in Workers |-> None]
    /\ flush_iter' = NoIter
    /\ attempted' = {}
    /\ enqueued' = {}
    /\ resumed' = NoTables
    /\ cr_i' = 0
    /\ current_level' = <<>>
    /\ new_level' = <<>>
    /\ layer_processed' = FALSE
    /\ sub_i' = 0
    /\ passes' = 0
    /\ final_groups' = <<>>
    /\ fg_i' = 0
    /\ prev' = [completed |-> (orch_pc = "done"), disk |-> disk]
    /\ UNCHANGED <<envVars, disk, load_log>>

\* a file becomes unreadable, or readable again, between the phases of a run
\* or between runs
EnvChange ==
    /\ env_changes < MaxEnvChanges
    /\ \/ orch_pc = "start" /\ run > 1
       \/ orch_pc = "resolve" /\ cr_i = 1
    /\ \E f \in Files : broken' = IF f \in broken THEN broken \ {f} ELSE broken \cup {f}
    /\ env_changes' = env_changes + 1
    /\ UNCHANGED <<content, disk, run, orch_pc, refined_groups, duplicates, scanVars, refineVars>>

Consumer(w) ==
    \/ C_Get(w) \/ C_Sentinel(w) \/ C_LockGroups(w) \/ C_AddGroup(w)
    \/ C_LockProcessed(w) \/ C_Record(w) \/ C_FlushOpen(w) \/ C_FlushProcessed(w)
    \/ C_Snapshot(w) \/ C_SaveSnapshot(w) \/ C_TaskDone(w)

Producer == P_List \/ P_Check \/ P_Load \/ P_Sentinels

Orchestrator ==
    \/ O_Start \/ O_JoinProducer \/ O_JoinQueue \/ O_Open \/ O_SaveProcessed
    \/ O_SaveGroups \/ O_SaveRefined \/ O_SaveDuplicates

Program == Producer \/ (\E w \in Workers : Consumer(w)) \/ Orchestrator \/ Refiner

Next == Program \/ Restart \/ EnvChange

Spec == Init /\ [][Next]_vars

\* The program run again after it completed, over an unchanged directory,
\* with every thread scheduled fairly.
Rerun == orch_pc = "done" /\ Restart

FairNext == Program \/ Rerun

Fairness ==
    /\ WF_vars(Producer)
    /\ \A w \in Workers : WF_vars(Consumer(w))
    /\ WF_vars(Orchestrator \/ Refiner)

FairSpec == Init /\ [][FairNext]_vars /\ Fairness

\* ------------------------------------------------- refinement of a larger group
\* The refine phase alone, on a CoarseGroup of four files: the state in which
\* run_adaptive_lora_analysis calls conflict_resolution (line 268) in a first
\* run over the directory W, X, Y, Z, every file of one shape signature and
\* loaded by the scan.
GroupFiles == Range(PathOrder)
GroupDirectories == [GroupFiles -> {TM_A, TM_B, TM_N}]

RefineInit ==
    /\ content \in GroupDirectories
    /\ broken \in {b \in SUBSET GroupFiles : Cardinality(b) <= 1}
    /\ env_changes = 0
    /\ disk = [t \in TableFiles |->
                 IF t = PROCESSED_JSON THEN FileOk(GroupFiles)
                 ELSE IF t = GROUPS_JSON
                 THEN FileOk(<<<<compute_shape_signature(TM_A), list(GroupFiles)>>>>)
                 ELSE FileAbsent]
    /\ run = 1
    /\ orch_pc = "resolve"
    /\ processed_data = GroupFiles
    /\ groups = <<<<compute_shape_signature(TM_A), GroupFiles>>>>
    /\ refined_groups = <<>>
    /\ duplicates = <<>>
    /\ processed_count = Cardinality(GroupFiles)
    /\ total_files = Cardinality(GroupFiles)
    /\ file_queue = <<>>
    /\ unfinished_tasks = 0
    /\ groups_lock = Free
    /\ processed_lock = Free
    /\ prod_pc = "done"
    /\ file_list = PathOrder
    /\ prod_i = Len(PathOrder) + 1
    /\ pc = [w \in Workers |-> "exited"]
    /\ item = [w \in Workers |-> None]
    /\ flush_iter = NoIter
    /\ attempted = GroupFiles
    /\ enqueued = GroupFiles
    /\ load_log = [f \in GroupFiles |-> <<"ok">>]
    /\ resumed = NoTables
    /\ prev = [completed |-> FALSE, disk |-> [t \in TableFiles |-> FileAbsent]]
    /\ cr_i = 1
    /\ current_level = <<>>
    /\ new_level = <<>>
    /\ layer_processed = FALSE
    /\ sub_i = 0
    /\ passes = 0
    /\ final_groups = <<>>
    /\ fg_i = 0

\* a file of the group becomes unreadable, or readable again, while the group
\* is refined and verified (lines 128, 162, 164 load it again each time)
R_EnvChange ==
    /\ env_changes < MaxEnvChanges
    /\ orch_pc \in {"refine", "verify"}
    /\ \E f \in GroupFiles : broken' = IF f \in broken THEN broken \ {f} ELSE broken \cup {f}
    /\ env_changes' = env_changes + 1
    /\ UNCHANGED <<content, disk, run, orch_pc, refined_groups, duplicates, scanVars, refineVars>>

RefineNext == Refiner \/ O_Open \/ O_SaveRefined \/ O_SaveDuplicates \/ R_EnvChange

RefineSpec == RefineInit /\ [][RefineNext]_vars

\* ----------------------------------------------------------- write failures
\* save_json raises OSError (disk full, permission denied): at line 27 the
\* file is left as it was, at line 28 it is left partial.  In a worker the
\* exception leaves the with-block of line 90, which releases processed_lock,
\* and ends the thread before task_done (line 104).
C_SaveFails(w) ==
    /\ pc[w] \in {"flush", "flush_dump", "snapshot_dump"}
    /\ pc' = [pc EXCEPT ![w] = "io_error"]
    /\ flush_iter' = NoIter
    /\ processed_lock' = Free
    /\ UNCHANGED <<envVars, disk, run, orch_pc, tableVars, processed_count, total_files,
                   queueVars, groups_lock, prodVars, item, histVars, refineVars>>

\* in the orchestrator the exception leaves run_adaptive_lora_analysis
O_SaveFails ==
    /\ orch_pc \in DOMAIN SaveTarget \cup {DumpPc[k] : k \in DOMAIN SaveTarget}
    /\ orch_pc' = "failed"
    /\ UNCHANGED <<envVars, disk, run, tableVars, processed_count, total_files,
                   queueVars, lockVars, prodVars, consVars, histVars, refineVars>>

WriteFault == O_SaveFails \/ (\E w \in Workers : C_SaveFails(w))

\* The program of FairSpec on a disk whose writes can fail.
FaultNext == FairNext \/ WriteFault

FaultSpec == Init /\ [][FaultNext]_vars /\ Fairness

\* ------------------------------------------------------------------ properties
ScanPhase == orch_pc \in {"join_producer", "join_queue"}
ScanComplete == orch_pc \in {"save_processed", "dump_processed", "save_groups", "dump_groups",
                             "resolve", "refine", "verify", "cr_save", "cr_dump",
                             "save_refined", "dump_refined", "save_duplicates",
                             "dump_duplicates", "done"}
Sig(f) == compute_shape_signature(content[f])
InGroupOf(f) == \E i \in DOMAIN groups : groups[i][1] = Sig(f) /\ f \in groups[i][2]
LoadFailed == attempted \ enqueued

\* C1: when the orchestrator is past the join barrier, every file the producer
\* enqueued in this run is in the FileRecord table and in the CoarseGroup of
\* its signature.
C1_JoinBarrier ==
    ScanComplete => \A f \in enqueued : f \in processed_data /\ InGroupOf(f)

C1_Witness ==
    /\ orch_pc = "save_processed"
    /\ enqueued = Files
    /\ Len(groups) = 2

\* C2: under fair scheduling the scan ends: the producer has put its sentinels,
\* every worker has taken one and exited, and the orchestrator has passed the
\* barrier and reached the refinement phase.
C2_ScanTerminates ==
    (orch_pc = "join_producer")
        ~> (orch_pc = "resolve" /\ prod_pc = "done" /\ \A w \in Workers : pc[w] = "exited")

\* C3 (as amended): the producer invokes the Tensor Loader only on a path that
\* is not in the FileRecord table and that it has not loaded in this run; no
\* path of the checkpoint the run started from is loaded.
C3_ResumeSkip ==
    /\ prod_pc = "load" => file_list[prod_i] \notin (processed_data \cup attempted)
    /\ attempted \cap resumed.processed = {}

C3_Witness ==
    /\ run = 2
    /\ prod_pc = "sentinel"
    /\ resumed.processed # {}
    /\ attempted # {}

\* C3 (as stated): across the runs each path is loaded by the producer at most
\* once.
C3_LoadedAtMostOnce == \A f \in Files : Len(load_log[f]) <= 1

\* C4 (as amended): a file whose load failed in the scan is not enqueued, not
\* recorded, not persisted and not added to a CoarseGroup by this run; when the
\* scan completes every file without a record in the loaded checkpoint was
\* tried, and each one that loaded is recorded and grouped.
C4_LoadFailureIsolation ==
    /\ \A f \in LoadFailed :
          /\ f \notin Range(file_queue)
          /\ f \notin processed_data
          /\ disk[PROCESSED_JSON].st = "ok" => f \notin disk[PROCESSED_JSON].data
          /\ f \in GroupMembers(groups) => f \in resumed.grouped
    /\ ScanComplete =>
          \A f \in Files \ resumed.processed :
              /\ f \in attempted
              /\ f \in enqueued => (f \in processed_data /\ InGroupOf(f))

C4_Witness ==
    /\ run = 2
    /\ ScanComplete
    /\ \E f \in Files :
          load_log[f] = <<"fail", "ok">> /\ f \in processed_data /\ InGroupOf(f)

\* C4 (as stated): when the scan completes, a file whose load failed is in
\* no CoarseGroup and not in the FileRecord table.
C4_FailedFileInNoGroup ==
    ScanComplete =>
        \A f \in LoadFailed : f \notin processed_data /\ f \notin GroupMembers(groups)

\* C5: in a scan that started from an empty checkpoint every recorded path is
\* in exactly one CoarseGroup, the one of its signature, and no step of the
\* scan removes a path from a CoarseGroup or removes a CoarseGroup.
C5_CoarsePartition ==
    /\ [](ScanPhase /\ resumed = NoTables =>
            \A f \in processed_data :
                /\ InGroupOf(f)
                /\ Cardinality({i \in DOMAIN groups : f \in groups[i][2]}) = 1)
    /\ [][ScanPhase /\ ScanPhase' =>
            \A i \in DOMAIN groups :
                /\ i \in DOMAIN groups'
                /\ groups'[i][1] = groups[i][1]
                /\ groups[i][2] \subseteq groups'[i][2]]_vars

C5_Witness ==
    /\ ScanPhase
    /\ resumed = NoTables
    /\ processed_data = Files
    /\ Len(groups) = 2

\* C6: when refine_group has finished a CoarseGroup of more than one member,
\* the RefinedClusters it wrote for the group are pairwise disjoint and their
\* union is the member set of the group.
WrittenKeys == {ClusterKey(final_groups[i]) : i \in DOMAIN final_groups}
Cluster(k) == Range(DictGet(refined_groups, k))

C6_RefinedPartition ==
    orch_pc = "cr_save" =>
        /\ UNION {Cluster(k) : k \in WrittenKeys} = groups[cr_i][2]
        /\ \A k1, k2 \in WrittenKeys : k1 # k2 => Cluster(k1) \cap Cluster(k2) = {}

\* C7: the level-wise loop of refine_group terminates for every CoarseGroup
\* of more than one member, in particular when members share the content hash
\* of their probe tensor and every load succeeds.
C7_RefinementTerminates == (orch_pc = "refine") ~> (orch_pc = "verify")

\* C8: every pair (reference, member) that refine_group put into the
\* DuplicateRelation has the same number of tensors, the same tensor names in
\* the same order and equal tensors throughout.
C8_DuplicateSoundness ==
    \A i \in DOMAIN duplicates :
        duplicates[i][2].py = "set" =>
            \A b \in Range(duplicates[i][2].elems) :
                LET A == content[duplicates[i][1]]
                    B == content[b]
                IN  /\ Len(A) = Len(B)
                    /\ \A k \in DOMAIN A :
                          /\ A[k].name = B[k].name
                          /\ A[k].shape = B[k].shape
                          /\ A[k].val = B[k].val

C8_Witness ==
    /\ orch_pc = "cr_save"
    /\ \E i \in DOMAIN duplicates :
          duplicates[i][2].py = "set" /\ duplicates[i][2].elems # <<>>

\* C9: X and Y of equal shapes and content, Z of equal shapes and other
\* content, every file loadable: the run from the empty checkpoint completes
\* with the CoarseGroup {X,Y,Z}, the clusters {X,Y} and {Z} (or {X,Y,Z}), and
\* a DuplicateRelation of exactly one entry relating X and Y.
ThreeFileScenario ==
    /\ content["X"] = content["Y"]
    /\ content["Z"] # content["X"]
    /\ Sig("Z") = Sig("X")
    /\ broken = {}

ThreeFileResult ==
    /\ Len(groups) = 1 /\ groups[1][2] = {"X", "Y", "Z"}
    /\ {Range(refined_groups[i][2]) : i \in DOMAIN refined_groups}
           \in {{{"X", "Y"}, {"Z"}}, {{"X", "Y", "Z"}}}
    /\ Len(duplicates) = 1
    /\ <<duplicates[1][1], Range(duplicates[1][2].elems)>>
           \in {<<"X", {"Y"}>>, <<"Y", {"X"}>>}

C9_ThreeFiles ==
    [](run = 1 /\ orch_pc = "start" /\ ThreeFileScenario
         => <>(run = 1 /\ orch_pc = "done" /\ ThreeFileResult))

\* C10: a second run over the unchanged directory, from the checkpoint of a
\* completed first run, completes with the four tables equal, as mappings to
\* sets, to those the first run left, and loads no file.
SetsOf(raw) == {<<raw[i][1], Range(raw[i][2])>> : i \in DOMAIN raw}
TablesAsSets(d) ==
    [processed |-> load_json(d, PROCESSED_JSON, {}),
     groups |-> SetsOf(load_json(d, GROUPS_JSON, <<>>)),
     refined |-> SetsOf(load_json(d, REFINED_GROUPS_JSON, <<>>)),
     duplicates |-> SetsOf(load_json(d, DUPLICATES_JSON, <<>>))]
MemoryAsSets ==
    [processed |-> processed_data,
     groups |-> {<<groups[i][1], groups[i][2]>> : i \in DOMAIN groups},
     refined |-> SetsOf(refined_groups),
     duplicates |-> {<<duplicates[i][1], Range(duplicates[i][2].elems)>> : i \in DOMAIN duplicates}]

C11_RestartWithoutLoss ==
    /\ attempted \cap resumed.processed = {}
    /\ ScanComplete => \A f \in processed_data : f \in GroupMembers(groups)

\* C12: the save of the DuplicateRelation table at the end of a run succeeds
\* (every value is written as an array), and the tables a run loaded hold sets:
\* the CoarseGroups those of groups.json, the DuplicateRelation values ones
\* that accept a further path.
C12_SetTablesRoundTrip ==
    /\ orch_pc = "save_duplicates" => JsonSerializable(duplicates)
    /\ ScanPhase =>
          /\ \A i \in DOMAIN duplicates : duplicates[i][2].py = "set"
          /\ resumed.grouped \subseteq GroupMembers(groups)

\* C13: after a checkpoint write failed in a worker's flush the run stops with
\* failure, and it does not go on to the phase after the scan.
C13_PersistenceFailureFatal ==
    /\ [](\A w \in Workers : pc[w] = "io_error" => ~ScanComplete)
    /\ (\E w \in Workers : pc[w] = "io_error") ~> (orch_pc = "failed")

\* C14: no worker holds groups_lock and processed_lock together; a thread that
\* holds a lock is alive and is not itself waiting for a lock, so the producer
\* and the workers are never all blocked on the table locks.
WaitsForLock(w) ==
    \/ pc[w] = "got" /\ groups_lock # Free
    \/ pc[w] = "want_record" /\ processed_lock # Free
ProducerWaits == prod_pc = "check" /\ processed_lock # Free

C14_LockDiscipline ==
    /\ \A w \in Workers : ~(groups_lock = w /\ processed_lock = w)
    /\ \A l \in {groups_lock, processed_lock} \ {Free} :
          /\ ~WaitsForLock(l)
          /\ pc[l] \in {"groups", "record", "flush", "flush_dump", "snapshot", "snapshot_dump"}
    /\ ~(ProducerWaits /\ \A w \in Workers : WaitsForLock(w))

C14_Witness ==
    /\ ScanPhase
    /\ ProducerWaits
    /\ \E w \in Workers : pc[w] = "want_record" /\ WaitsForLock(w)

\* C15: in the exact verification of a final subgroup, whatever the order in
\* which the members are visited, every member that loads and is exactly equal
\* to the reference is recorded under the reference, whatever happens with the
\* other members.
Recorded(dups, a) == IF DictHas(dups, a) THEN Range(DictGet(dups, a).elems) ELSE {}

C15_PairIsolation ==
    (orch_pc = "verify" /\ fg_i <= Len(final_groups)) =>
        \A order \in Perms(final_groups[fg_i]) :
            (Len(order) > 1 /\ ~LoadFails(order[1])) =>
                \A j \in 2..Len(order) :
                    (~LoadFails(order[j]) /\ content[order[j]] = content[order[1]]) =>
                        order[j] \in Recorded(VerifyGroup(order, duplicates), order[1])

\* C16: a refinement pass removes no member from the partition: every file of
\* the current level is in some subgroup of the level the pass produces.
C16_RefinementRetention ==
    [][(orch_pc = "refine" /\ orch_pc' \in {"refine", "verify"}) =>
          GroupMembers(current_level) \subseteq GroupMembers(current_level')]_vars

\* C17: when conflict_resolution has refined and saved a CoarseGroup of more
\* than one member and turns to the next group, refined_groups.json and
\* duplicates.json hold the in-memory RefinedCluster and DuplicateRelation
\* tables.
C17_PerGroupPersistence ==
    (orch_pc = "resolve" /\ cr_i > 1 /\ Cardinality(groups[cr_i - 1][2]) > 1) =>
        /\ disk[REFINED_GROUPS_JSON] = FileOk(refined_groups)
        /\ TablesAsSets(disk).duplicates = MemoryAsSets.duplicates

\* C18: in the scan phase, whenever no worker holds processed_lock, fewer than
\* flush_interval paths of the in-memory FileRecord table are missing from
\* processed.json.
PersistedRecords == load_json(disk, PROCESSED_JSON, {})
Unflushed == processed_data \ PersistedRecords

C18_BoundedRecoveryLoss ==
    (ScanPhase /\ processed_lock = Free) => Cardinality(Unflushed) < flush_interval

C18_Witness ==
    /\ ScanPhase
    /\ processed_lock = Free
    /\ PersistedRecords # resumed.processed
    /\ Cardinality(Unflushed) = flush_interval - 1

\* C19: a save leaves the file with its previous or its new complete contents
\* wherever the process is interrupted, so that no run starts from a
\* checkpoint file that holds a torn table.
C19_AtomicSave ==
    orch_pc = "start" => \A t \in TableFiles : disk[t].st # "torn"

\* C20: a worker builds the snapshot of groups for a flush only while no other
\* worker is inside its insert into groups, the table does not change while
\* the snapshot is built, and no worker dies of a concurrent modification.
C20_SnapshotIsolation ==
    /\ \A w \in Workers : pc[w] # "crashed"
    /\ \A w1, w2 \in Workers : ~(pc[w1] = "snapshot" /\ pc[w2] = "groups")
    /\ \A w \in Workers :
          pc[w] = "snapshot" =>
              \A i \in 1..flush_iter.pos :
                  /\ i <= Len(groups)
                  /\ flush_iter.temp[i] = <<groups[i][1], list(groups[i][2])>>
====
